---- MODULE Spec2Model ----
(***************************************************************************)
(* Model of the asynchronous parsing pipeline of the medical-report API:   *)
(* the parsing_jobs collection, the ParsingWorker polling loop             *)
(* (server/workers/parsing_worker.py) and its webhook bookkeeping.         *)
(*                                                                         *)
(* A store call (find, update_one, find_one) either takes effect and       *)
(* returns, or raises without taking effect.  The boolean parameters of    *)
(* the actions say which of the two happens.                               *)
(***************************************************************************)
EXTENDS Integers, Sequences, FiniteSets, TLC

\* ---------------------------------------------------------------- bounds
NumJobs == 2            \* jobs in the parsing_jobs collection
MaxRetriesBound == 1    \* largest max_retries a job is created with
MaxFiles == 2           \* largest number of files of a job
QueueExcess == 1        \* jobs beyond one batch in the long queue
MaxDocs == 2            \* documents handed to one consolidation
MaxDiagnoses == 2       \* distinct diagnoses, and length of a diagnosis list
MaxImages == 2          \* images in one document's photo_comparison
ConfidenceSteps == 8    \* self-reported confidences span -85*8 .. 85*8

\* ------------------------------------------------------ program constants
BATCH_SIZE == 10

NULL == "null"

\* A non-empty document returned by the extractor or by the merge.
ParsedData == "data"

\* str(exc) of whatever _process_job caught.
ErrorText == "error"

PENDING == "pending"
PROCESSING == "processing"
COMPLETED == "completed"
FAILED == "failed"

\* ------------------------------------------------------------ the record
\* WebhookMeta() as the model class builds it (last_attempt_at 0: None).
WebhookMeta(url) ==
    [delivered |-> FALSE, status |-> "pending", webhook_url |-> url,
     last_attempt_at |-> 0, attempts |-> 0]

\* A ParsingJob as the model class builds it for a new submission.
ParsingJob(created, nfiles, maxRetries, url, model) ==
    [tenant_id |-> "tenant", project_id |-> "project", report_id |-> "report",
     status |-> PENDING,
     files |-> nfiles,
     files_processed |-> 0, successful_parses |-> 0, failed_parses |-> 0,
     parsed_data |-> NULL,
     retry_count |-> 0, max_retries |-> maxRetries, last_error |-> NULL,
     webhook_meta |-> WebhookMeta(url),
     created_at |-> created, started_at |-> NULL, completed_at |-> NULL,
     model_name |-> model]

VARIABLES
    store,          \* parsing_jobs collection: job id -> document
    is_running,     \* ParsingWorker.is_running
    pc,             \* position of the worker coroutine
    batch,          \* pending_jobs of the running cycle (snapshots)
    idx,            \* index in batch of the job being processed
    cur,            \* locals of the running _process_job call
    posts,          \* per job: the webhook POSTs made, in order
    calls,          \* per job: number of _send_webhook calls finished
    attempted,      \* job ids whose _process_job call of this cycle returned
    stopRequested,  \* stop() has been called
    marks,          \* per job: number of _process_job calls begun, where counted
    peer,           \* a second loop: of another worker process, or of this worker
    fn,             \* the pure function under study and how far its call got
    parsed_results, \* argument of the consolidation, as it was at the call
    parsed_results_after, \* the caller's list of documents once the call is over
    consolidated,   \* what the consolidation returned
    confidence_in,  \* arguments of calculate_confidence
    confidence_out  \* what calculate_confidence returned

\* The worker's state and the state of the calls of the pure functions.
workerVars == <<store, is_running, pc, batch, idx, cur, posts, calls, attempted,
                stopRequested, marks, peer>>

fnVars == <<fn, parsed_results, parsed_results_after, consolidated, confidence_in,
            confidence_out>>

vars == <<workerVars, fnVars>>

Jobs == DOMAIN store

NoLocals == [marked |-> FALSE, raised |-> FALSE, err |-> NULL, pdf |-> 0,
             parsed |-> NULL, parsedFiles |-> 0, merged |-> FALSE,
             consolidatedCalls |-> 0, consolidatedResult |-> "none",
             perFileCalls |-> 0, post |-> "none"]

\* No second loop.
NoPeer == [kind |-> "none", pc |-> "idle", is_running |-> FALSE, batch |-> <<>>,
           idx |-> 0, raised |-> FALSE]

\* The history marks stops counting here, beyond what one worker can reach.
MaxMarks == MaxRetriesBound + 2

Counted(n) == IF n < MaxMarks THEN n + 1 ELSE n

\* The job document the cycle fetched for the job being processed.
JobId == batch[idx].id
JobDoc == batch[idx].doc

\* ------------------------------------------------------------- the store
\* A find that returns every pending job twice.
FindPending_Twice(s) ==
    LET pending  == {j \in DOMAIN s : s[j].status = PENDING}
        Before(j) == Cardinality({k \in pending : s[k].created_at < s[j].created_at})
        taken    == {j \in pending : Before(j) < BATCH_SIZE}
    IN  [i \in 1..(2 * Cardinality(taken)) |->
            LET j == CHOOSE k \in taken : Before(k) = (i - 1) \div 2
            IN  [id |-> j, doc |-> s[j]]]

\* The sort descending: the newest pending jobs, newest first.
FindPending_NewestFirst(s) ==
    LET pending  == {j \in DOMAIN s : s[j].status = PENDING}
        After(j) == Cardinality({k \in pending : s[k].created_at > s[j].created_at})
        taken    == {j \in pending : After(j) < BATCH_SIZE}
    IN  [i \in 1..Cardinality(taken) |->
            LET j == CHOOSE k \in taken : After(k) = i - 1
            IN  [id |-> j, doc |-> s[j]]]

\* find({"status": PENDING}).sort("created_at", 1).limit(BATCH_SIZE): the
\* pending jobs that fewer than BATCH_SIZE pending jobs precede in created_at
\* order, in that order (created_at values are distinct).
FindPending(s) ==
    LET pending  == {j \in DOMAIN s : s[j].status = PENDING}
        Before(j) == Cardinality({k \in pending : s[k].created_at < s[j].created_at})
        taken    == {j \in pending : Before(j) < BATCH_SIZE}
    IN  [i \in 1..Cardinality(taken) |->
            LET j == CHOOSE k \in taken : Before(k) = i - 1
            IN  [id |-> j, doc |-> s[j]]]

\* A conditional claim: the update filtered on {"status": PENDING}.
ProcessingUpdate_IfPending(job) ==
    IF job.status = PENDING
    THEN [job EXCEPT !.status = PROCESSING, !.started_at = "set"]
    ELSE job

\* The update without the status.
ProcessingUpdate_NoStatus(job) == [job EXCEPT !.started_at = "set"]

\* The update without "$set": the document is replaced, its files and
\* model_name are gone.
ProcessingUpdate_Replaces(job) ==
    [job EXCEPT !.status = PROCESSING, !.started_at = "set",
                !.files = 0, !.model_name = NULL]

\* "$set" of _process_job's first update_one.
ProcessingUpdate(job) ==
    [job EXCEPT !.status = PROCESSING, !.started_at = "set"]

\* The completion update without the parsed document.
CompletionUpdate_NoData(job, nfiles, npdf, parsed) ==
    [job EXCEPT !.status = COMPLETED, !.completed_at = "set",
                !.files_processed = nfiles,
                !.successful_parses = npdf,
                !.failed_parses = nfiles - npdf]

\* "$set" of _process_job's completion update_one.
CompletionUpdate(job, nfiles, npdf, parsed) ==
    [job EXCEPT !.status = COMPLETED, !.completed_at = "set",
                !.files_processed = nfiles,
                !.successful_parses = npdf,
                !.failed_parses = nfiles - npdf,
                !.parsed_data = parsed]

\* Off by one: retries once more at the bound.
ShouldRetry_AtBound(retryCount, maxRetries) == retryCount <= maxRetries

\* _handle_job_failure's test: retry while the fetched retry_count is below
\* the fetched max_retries.
ShouldRetry(retryCount, maxRetries) == retryCount < maxRetries

\* The retry branch leaves the status as it is.
FailureUpdate_KeepsStatus(job, retryCount, maxRetries, err) ==
    IF retryCount < maxRetries
    THEN [job EXCEPT !.retry_count = retryCount + 1, !.last_error = err]
    ELSE [job EXCEPT !.status = FAILED, !.completed_at = "set",
                     !.last_error = err]

\* The retry branch counts the retry twice.
FailureUpdate_CountsTwice(job, retryCount, maxRetries, err) ==
    IF retryCount < maxRetries
    THEN [job EXCEPT !.status = PENDING, !.retry_count = retryCount + 2,
                     !.last_error = err]
    ELSE [job EXCEPT !.status = FAILED, !.completed_at = "set",
                     !.last_error = err]

\* The retry branch forgets to count the retry.
FailureUpdate_NoCount(job, retryCount, maxRetries, err) ==
    IF retryCount < maxRetries
    THEN [job EXCEPT !.status = PENDING, !.last_error = err]
    ELSE [job EXCEPT !.status = FAILED, !.completed_at = "set",
                     !.last_error = err]

\* "$set" of _handle_job_failure's update_one, from the fetched retry_count
\* and max_retries.
FailureUpdate(job, retryCount, maxRetries, err) ==
    IF ShouldRetry(retryCount, maxRetries)
    THEN [job EXCEPT !.status = PENDING, !.retry_count = retryCount + 1,
                     !.last_error = err]
    ELSE [job EXCEPT !.status = FAILED, !.completed_at = "set",
                     !.last_error = err]

\* The test left out: a webhook is sent whatever the url.
WebhookConfigured_Always(url) == TRUE

\* `if webhook_url:` of _process_job and _handle_job_failure.
WebhookConfigured(url) == url /= NULL

\* The failure webhook sent from both branches.
NotifiesFailure_OnRetry(retryCount, maxRetries, url) == url /= NULL

\* _handle_job_failure sends the failure webhook in its else branch only.
NotifiesFailure(retryCount, maxRetries, url) ==
    ~ShouldRetry(retryCount, maxRetries) /\ WebhookConfigured(url)

\* `if not pdf_files:` of _process_job, n files downloaded.
NothingDownloaded(n) == n = 0

\* The consolidated call whatever the number of files.
TriesConsolidated_Always(npdf) == TRUE

\* _parse_files: `if len(pdf_files) > 1`, the consolidated call is tried.
TriesConsolidated(npdf) == npdf > 1

\* The test left out: an empty result list is merged and returned.
NothingParsed_Never(k) == FALSE

\* `if not parsed_results:` of _parse_files, k files parsed one by one.
NothingParsed(k) == k = 0

\* ------------------------------------------------------ webhook delivery
PostResults == {"2xx", "non2xx", "raise"}

\* The three update_one calls of _send_webhook; stamp stands for time.time().
DeliveredUpdate(wm, stamp) ==
    [wm EXCEPT !.delivered = TRUE, !.status = "success",
               !.last_attempt_at = stamp, !.attempts = @ + 1]
\* The non-2xx branch without its "$inc".
RejectedUpdate_NoInc(wm, stamp) ==
    [wm EXCEPT !.delivered = FALSE, !.status = "fail (status)",
               !.last_attempt_at = stamp]
RejectedUpdate(wm, stamp) ==
    [wm EXCEPT !.delivered = FALSE, !.status = "fail (status)",
               !.last_attempt_at = stamp, !.attempts = @ + 1]
\* The except branch without its "$inc".
ExceptionUpdate_NoInc(wm, stamp) ==
    [wm EXCEPT !.delivered = FALSE, !.status = "fail (exception)",
               !.last_attempt_at = stamp]
ExceptionUpdate(wm, stamp) ==
    [wm EXCEPT !.delivered = FALSE, !.status = "fail (exception)",
               !.last_attempt_at = stamp, !.attempts = @ + 1]

\* webhook_meta after one _send_webhook call.  post is the outcome of
\* client.post, or "none" when the payload could not be built; w1 says
\* whether the update_one after the response took effect, w2 whether the
\* one of the except branch did.
WebhookBookkeeping(wm, post, w1, w2, stamp) ==
    LET fallback == IF w2 THEN ExceptionUpdate(wm, stamp) ELSE wm
    IN  CASE post = "2xx"    -> IF w1 THEN DeliveredUpdate(wm, stamp) ELSE fallback
          [] post = "non2xx" -> IF w1 THEN RejectedUpdate(wm, stamp) ELSE fallback
          [] OTHER           -> fallback

\* An exception of the POST escaping into _process_job's except clause.
AfterWebhook_Escapes(post) == IF post = "raise" THEN "handler" ELSE "next"

\* Where _process_job goes after _send_webhook: the call's body is one
\* try/except Exception and get_database before it returns the cached handle,
\* so no outcome of the POST reaches _process_job's except clause.
AfterWebhook(post) == "next"

\* A failed job ending the batch.
AfterJob_Abort(i, n, raised) ==
    IF raised THEN "sleep" ELSE IF i < n THEN "mark" ELSE "sleep"

\* for job_doc in pending_jobs: ... except Exception: continue
AfterJob(i, n, raised) == IF i < n THEN "mark" ELSE "sleep"

\* ------------------------------------------------------------ the worker
\* What a submission fixes of its job; jobs are created in id order, so job j
\* has created_at j.
JobRequests ==
    [files : 1..MaxFiles, max_retries : 0..MaxRetriesBound,
     webhook_url : {NULL, "https://hook"}, model_name : {NULL, "gemini"}]

\* ParsingWorker.__init__ and an empty history, the collection holding jobs.
WorkerInitWith(jobs, p) ==
    /\ store = jobs
    /\ is_running = FALSE
    /\ pc = "idle"
    /\ batch = <<>>
    /\ idx = 0
    /\ cur = NoLocals
    /\ posts = [j \in DOMAIN jobs |-> <<>>]
    /\ calls = [j \in DOMAIN jobs |-> 0]
    /\ attempted = {}
    /\ stopRequested = FALSE
    /\ marks = [j \in DOMAIN jobs |-> 0]
    /\ peer = p

\* One worker, one loop.
WorkerInit(jobs) == WorkerInitWith(jobs, NoPeer)

\* The worker and the second loop p: no pure function is called on its own.
InitWithPeer(jobs, p) ==
    /\ WorkerInitWith(jobs, p)
    /\ fn = "off"
    /\ parsed_results = <<>>
    /\ parsed_results_after = <<>>
    /\ consolidated = <<>>
    /\ confidence_in = <<>>
    /\ confidence_out = <<>>

\* The worker alone.
InitWith(jobs) == InitWithPeer(jobs, NoPeer)

\* A one-file job without webhook and without retries.
PlainJob(created) == ParsingJob(created, 1, 0, NULL, "gemini")

\* Pending jobs: one of any kind, at any place among plain ones.
Init ==
    \E r \in 1..NumJobs, req \in JobRequests :
        InitWith([j \in 1..NumJobs |->
                    IF j = r
                    THEN ParsingJob(j, req.files, req.max_retries,
                                    req.webhook_url, req.model_name)
                    ELSE PlainJob(j)])

\* More pending jobs than one batch takes: plain jobs, the oldest with one
\* retry.
QueueInit ==
    InitWith([j \in 1..(BATCH_SIZE + QueueExcess) |->
                IF j = 1 THEN ParsingJob(j, 1, 1, NULL, "gemini")
                ELSE PlainJob(j)])

\* start(): is_running = True, then the loop.
Start ==
    /\ pc = "idle"
    /\ ~is_running
    /\ is_running' = TRUE
    /\ pc' = "loop"
    /\ UNCHANGED <<store, batch, idx, cur, posts, calls, attempted, stopRequested>>
    /\ UNCHANGED <<marks, peer, fnVars>>

\* stop(), which the application calls at shutdown, after it started the loop.
Stop ==
    /\ pc \notin {"idle", "stopped"}
    /\ is_running' = FALSE
    /\ stopRequested' = TRUE
    /\ UNCHANGED <<store, pc, batch, idx, cur, posts, calls, attempted>>
    /\ UNCHANGED <<marks, peer, fnVars>>

\* `while self.is_running:` and, when it is false, the finally clause.
LoopCheck ==
    /\ pc = "loop"
    /\ pc' = IF is_running THEN "fetch" ELSE "stopped"
    /\ is_running' = is_running
    /\ UNCHANGED <<store, batch, idx, cur, posts, calls, attempted, stopRequested>>
    /\ UNCHANGED <<marks, peer, fnVars>>

\* _process_batch up to the for loop; found says whether the find returned.
Fetch(found) ==
    /\ pc = "fetch"
    /\ LET pending == IF found THEN FindPending(store) ELSE <<>>
       IN  /\ batch' = pending
           /\ idx' = IF pending = <<>> THEN 0 ELSE 1
           /\ pc' = IF pending = <<>> THEN "sleep" ELSE "mark"
    /\ attempted' = {}
    /\ cur' = NoLocals
    /\ UNCHANGED <<store, is_running, posts, calls, stopRequested>>
    /\ UNCHANGED <<marks, peer, fnVars>>

\* await asyncio.sleep(POLLING_INTERVAL_SECONDS); the cycle's locals are gone.
Sleep ==
    /\ pc = "sleep"
    /\ pc' = "loop"
    /\ batch' = <<>>
    /\ idx' = 0
    /\ attempted' = {}
    /\ UNCHANGED <<store, is_running, cur, posts, calls, stopRequested>>
    /\ UNCHANGED <<marks, peer, fnVars>>

\* _process_job: mark the job as processing.  counted says whether the
\* history marks is kept: it is where every store call returns, which bounds
\* the number of attempts.
MarkProcessing(ok, counted) ==
    /\ pc = "mark"
    /\ IF ok
       THEN /\ store' = [store EXCEPT ![JobId] = ProcessingUpdate(@)]
            /\ cur' = [NoLocals EXCEPT !.marked = TRUE]
            /\ pc' = "download"
       ELSE /\ store' = store
            /\ cur' = [NoLocals EXCEPT !.raised = TRUE, !.err = ErrorText]
            /\ pc' = "handler"
    /\ marks' = IF counted THEN [marks EXCEPT ![JobId] = Counted(@)] ELSE marks
    /\ UNCHANGED <<is_running, batch, idx, posts, calls, attempted, stopRequested>>
    /\ UNCHANGED <<peer, fnVars>>

\* _process_job: the model_name check and the download loop; n files are
\* downloaded (a file without blob_url or whose download raises is skipped).
Download ==
    /\ pc = "download"
    /\ \E n \in 0..JobDoc.files :
         IF JobDoc.model_name = NULL
         THEN /\ cur' = [cur EXCEPT !.raised = TRUE, !.err = ErrorText]
              /\ pc' = "handler"
         ELSE IF NothingDownloaded(n)
         THEN /\ cur' = [cur EXCEPT !.raised = TRUE, !.err = ErrorText]
              /\ pc' = "handler"
         ELSE /\ cur' = [cur EXCEPT !.pdf = n]
              /\ pc' = "parse"
    /\ UNCHANGED <<store, is_running, batch, idx, posts, calls, attempted,
                   stopRequested>>
    /\ UNCHANGED <<marks, peer, fnVars>>

\* _parse_files: with more than one file one consolidated call (cons is its
\* outcome), then, unless it returned data, one parse_pdf call per file, of
\* which k return data.
ParseFiles ==
    /\ pc = "parse"
    /\ \E cons \in {"data", "empty", "raise"}, k \in 0..cur.pdf :
         LET tried == TriesConsolidated(cur.pdf)
             seen  == IF ~tried THEN "none"
                      ELSE IF cons = "data" THEN "data" ELSE "nothing"
         IN  IF tried /\ cons = "data"
             THEN /\ cur' = [cur EXCEPT !.parsed = ParsedData,
                                        !.parsedFiles = cur.pdf,
                                        !.consolidatedCalls = 1,
                                        !.consolidatedResult = seen]
                  /\ pc' = "confidence"
             ELSE IF NothingParsed(k)
             THEN /\ cur' = [cur EXCEPT !.raised = TRUE, !.err = ErrorText,
                                        !.consolidatedCalls = IF tried THEN 1 ELSE 0,
                                        !.consolidatedResult = seen,
                                        !.perFileCalls = cur.pdf]
                  /\ pc' = "handler"
             ELSE /\ cur' = [cur EXCEPT !.parsed = ParsedData,
                                        !.parsedFiles = k,
                                        !.merged = (k > 1),
                                        !.consolidatedCalls = IF tried THEN 1 ELSE 0,
                                        !.consolidatedResult = seen,
                                        !.perFileCalls = cur.pdf]
                  /\ pc' = "confidence"
    /\ UNCHANGED <<store, is_running, batch, idx, posts, calls, attempted,
                   stopRequested>>
    /\ UNCHANGED <<marks, peer, fnVars>>

\* _process_job: pop the extractor's confidence and call calculate_confidence.
CalcConfidence ==
    /\ pc = "confidence"
    /\ \E raises \in BOOLEAN :
         IF raises
         THEN /\ cur' = [cur EXCEPT !.raised = TRUE, !.err = ErrorText]
              /\ pc' = "handler"
         ELSE /\ cur' = cur
              /\ pc' = "persist"
    /\ UNCHANGED <<store, is_running, batch, idx, posts, calls, attempted,
                   stopRequested>>
    /\ UNCHANGED <<marks, peer, fnVars>>

\* _process_job: the completion update_one.
Complete(ok) ==
    /\ pc = "persist"
    /\ IF ok
       THEN /\ store' = [store EXCEPT ![JobId] =
                            CompletionUpdate(@, JobDoc.files, cur.pdf, cur.parsed)]
            /\ cur' = cur
            /\ pc' = IF WebhookConfigured(JobDoc.webhook_meta.webhook_url)
                     THEN "webhook" ELSE "next"
       ELSE /\ store' = store
            /\ cur' = [cur EXCEPT !.raised = TRUE, !.err = ErrorText]
            /\ pc' = "handler"
    /\ UNCHANGED <<is_running, batch, idx, posts, calls, attempted, stopRequested>>
    /\ UNCHANGED <<marks, peer, fnVars>>

\* _send_webhook(status="completed", parsed_data=...)
SendCompletedWebhook(w1, w2) ==
    /\ pc = "webhook"
    /\ \E post \in PostResults :
         /\ posts' = [posts EXCEPT ![JobId] =
                          Append(@, [status |-> COMPLETED, parsed_data |-> cur.parsed,
                                     error |-> NULL])]
         /\ store' = [store EXCEPT ![JobId].webhook_meta =
                          WebhookBookkeeping(@, post, w1, w2, calls[JobId] + 1)]
         /\ cur' = [cur EXCEPT !.post = post]
         /\ pc' = AfterWebhook(post)
    /\ calls' = [calls EXCEPT ![JobId] = @ + 1]
    /\ UNCHANGED <<is_running, batch, idx, attempted, stopRequested>>
    /\ UNCHANGED <<marks, peer, fnVars>>

\* _handle_job_failure up to its status update_one.
HandleFailure(ok) ==
    /\ pc = "handler"
    /\ LET retryCount == JobDoc.retry_count
           maxRetries == JobDoc.max_retries
       IN  IF ok
           THEN /\ store' = [store EXCEPT ![JobId] =
                                FailureUpdate(@, retryCount, maxRetries, cur.err)]
                /\ pc' = IF NotifiesFailure(retryCount, maxRetries,
                                            JobDoc.webhook_meta.webhook_url)
                         THEN "fail_webhook" ELSE "next"
           ELSE /\ store' = store
                /\ pc' = "next"
    /\ UNCHANGED <<is_running, batch, idx, cur, posts, calls, attempted,
                   stopRequested>>
    /\ UNCHANGED <<marks, peer, fnVars>>

\* _send_webhook(status="failed"); read says whether find_one returned.
SendFailureWebhook(read, w1, w2) ==
    /\ pc = "fail_webhook"
    /\ \E result \in PostResults :
         LET post == IF read THEN result ELSE "none"
         IN  /\ posts' = [posts EXCEPT ![JobId] =
                              IF read
                              THEN Append(@, [status |-> FAILED, parsed_data |-> NULL,
                                              error |-> store[JobId].last_error])
                              ELSE @]
             /\ store' = [store EXCEPT ![JobId].webhook_meta =
                              WebhookBookkeeping(@, post, w1, w2, calls[JobId] + 1)]
             /\ cur' = [cur EXCEPT !.post = post]
    /\ calls' = [calls EXCEPT ![JobId] = @ + 1]
    /\ pc' = "next"
    /\ UNCHANGED <<is_running, batch, idx, attempted, stopRequested>>
    /\ UNCHANGED <<marks, peer, fnVars>>

\* _process_batch: _process_job returned, on to the next job of the batch.
NextJob ==
    /\ pc = "next"
    /\ attempted' = attempted \cup {JobId}
    /\ pc' = AfterJob(idx, Len(batch), cur.raised)
    /\ idx' = idx + 1
    /\ cur' = NoLocals
    /\ UNCHANGED <<store, is_running, batch, posts, calls, stopRequested>>
    /\ UNCHANGED <<marks, peer, fnVars>>

\* Positions at which the coroutine is suspended in an await (the extractor
\* and calculate_confidence are called without await).
AwaitPcs == {"fetch", "sleep", "mark", "download", "persist", "webhook",
             "handler", "fail_webhook"}

\* lifespan at shutdown: one second after stop(), worker_task.cancel() if the
\* task is not done.  The coroutine gets CancelledError at the await it is
\* suspended in; no `except Exception` clause catches it, start() does and
\* its finally clause runs.
Cancel ==
    /\ stopRequested
    /\ pc \in AwaitPcs
    /\ pc' = "stopped"
    /\ is_running' = FALSE
    /\ UNCHANGED <<store, batch, idx, cur, posts, calls, attempted, stopRequested>>
    /\ UNCHANGED <<marks, peer, fnVars>>

\* The steps of the worker coroutine, the store calls answering within S.
Worker(S) ==
    \/ Start
    \/ LoopCheck
    \/ \E found \in S : Fetch(found)
    \/ Sleep
    \/ \E ok \in S : MarkProcessing(ok, S = {TRUE})
    \/ Download
    \/ ParseFiles
    \/ CalcConfidence
    \/ \E ok \in S : Complete(ok)
    \/ \E w1, w2 \in S : SendCompletedWebhook(w1, w2)
    \/ \E ok \in S : HandleFailure(ok)
    \/ \E read, w1, w2 \in S : SendFailureWebhook(read, w1, w2)
    \/ NextJob

\* The worker and the application's shutdown, every store call returning.
Next == Worker({TRUE}) \/ Stop

Spec == Init /\ [][Next]_vars

\* The same with store calls that may raise.
NextStoreFaults == Worker(BOOLEAN) \/ Stop

SpecStoreFaults == Init /\ [][NextStoreFaults]_vars

\* The worker and the whole shutdown of the application: stop(), then the
\* cancellation of the worker task.
NextShutdown == Worker({TRUE}) \/ Stop \/ Cancel

SpecShutdown == Init /\ [][NextShutdown]_vars

\* A worker that is never stopped and is always scheduled again, every store
\* call returning.
LiveNext == Worker({TRUE})

LiveInit == Init \/ QueueInit

LiveSpec == LiveInit /\ [][LiveNext]_vars /\ WF_vars(LiveNext)

\* ------------------------------------------------------- a second loop
\* A second polling loop on the same collection.  peer.kind says whose it is:
\* "instance" is the loop of another ParsingWorker object (another process),
\* with its own is_running; "loop" is a second start() call on this worker
\* object, sharing is_running.  The second loop runs the code of the first;
\* its download, extraction and confidence steps are one step here, and its
\* store calls return.
PeerJobId == peer.batch[peer.idx].id
PeerJobDoc == peer.batch[peer.idx].doc

PeerRunning == IF peer.kind = "loop" THEN is_running ELSE peer.is_running

PeerFrame == <<pc, batch, idx, cur, attempted, stopRequested>>

\* start()
PeerStart ==
    /\ peer.kind /= "none"
    /\ peer.pc = "idle"
    /\ ~PeerRunning
    /\ IF peer.kind = "loop"
       THEN /\ is_running' = TRUE
            /\ peer' = [peer EXCEPT !.pc = "loop"]
       ELSE /\ is_running' = is_running
            /\ peer' = [peer EXCEPT !.pc = "loop", !.is_running = TRUE]
    /\ UNCHANGED <<store, posts, calls, marks, PeerFrame, fnVars>>

\* `while self.is_running:` and the finally clause.
PeerLoopCheck ==
    /\ peer.pc = "loop"
    /\ peer' = [peer EXCEPT !.pc = IF PeerRunning THEN "fetch" ELSE "stopped"]
    /\ UNCHANGED <<store, is_running, posts, calls, marks, PeerFrame, fnVars>>

\* _process_batch up to the for loop.
PeerFetch ==
    /\ peer.pc = "fetch"
    /\ LET pending == FindPending(store)
       IN  peer' = [peer EXCEPT !.batch = pending,
                                !.idx = IF pending = <<>> THEN 0 ELSE 1,
                                !.pc = IF pending = <<>> THEN "sleep" ELSE "mark",
                                !.raised = FALSE]
    /\ UNCHANGED <<store, is_running, posts, calls, marks, PeerFrame, fnVars>>

\* await asyncio.sleep(POLLING_INTERVAL_SECONDS)
PeerSleep ==
    /\ peer.pc = "sleep"
    /\ peer' = [peer EXCEPT !.pc = "loop", !.batch = <<>>, !.idx = 0]
    /\ UNCHANGED <<store, is_running, posts, calls, marks, PeerFrame, fnVars>>

\* _process_job: mark the job as processing.
PeerMark ==
    /\ peer.pc = "mark"
    /\ store' = [store EXCEPT ![PeerJobId] = ProcessingUpdate(@)]
    /\ marks' = [marks EXCEPT ![PeerJobId] = Counted(@)]
    /\ peer' = [peer EXCEPT !.pc = "extract"]
    /\ UNCHANGED <<is_running, posts, calls, PeerFrame, fnVars>>

\* _process_job from the model_name check to calculate_confidence.
PeerExtract ==
    /\ peer.pc = "extract"
    /\ \E ok \in BOOLEAN :
         IF PeerJobDoc.model_name = NULL \/ ~ok
         THEN peer' = [peer EXCEPT !.pc = "handler", !.raised = TRUE]
         ELSE peer' = [peer EXCEPT !.pc = "persist"]
    /\ UNCHANGED <<store, is_running, posts, calls, marks, PeerFrame, fnVars>>

\* _process_job: the completion update_one.
PeerComplete ==
    /\ peer.pc = "persist"
    /\ store' = [store EXCEPT ![PeerJobId] =
                    CompletionUpdate(@, PeerJobDoc.files, PeerJobDoc.files, ParsedData)]
    /\ peer' = [peer EXCEPT !.pc =
                    IF WebhookConfigured(PeerJobDoc.webhook_meta.webhook_url)
                    THEN "webhook" ELSE "next"]
    /\ UNCHANGED <<is_running, posts, calls, marks, PeerFrame, fnVars>>

\* _send_webhook(status="completed", parsed_data=...)
PeerCompletedWebhook ==
    /\ peer.pc = "webhook"
    /\ \E post \in PostResults :
         /\ posts' = [posts EXCEPT ![PeerJobId] =
                          Append(@, [status |-> COMPLETED, parsed_data |-> ParsedData,
                                     error |-> NULL])]
         /\ store' = [store EXCEPT ![PeerJobId].webhook_meta =
                          WebhookBookkeeping(@, post, TRUE, TRUE, calls[PeerJobId] + 1)]
         /\ peer' = [peer EXCEPT !.pc = AfterWebhook(post)]
    /\ calls' = [calls EXCEPT ![PeerJobId] = @ + 1]
    /\ UNCHANGED <<is_running, marks, PeerFrame, fnVars>>

\* _handle_job_failure up to its status update_one.
PeerHandleFailure ==
    /\ peer.pc = "handler"
    /\ LET retryCount == PeerJobDoc.retry_count
           maxRetries == PeerJobDoc.max_retries
       IN  /\ store' = [store EXCEPT ![PeerJobId] =
                            FailureUpdate(@, retryCount, maxRetries, ErrorText)]
           /\ peer' = [peer EXCEPT !.pc =
                            IF NotifiesFailure(retryCount, maxRetries,
                                               PeerJobDoc.webhook_meta.webhook_url)
                            THEN "fail_webhook" ELSE "next"]
    /\ UNCHANGED <<is_running, posts, calls, marks, PeerFrame, fnVars>>

\* _send_webhook(status="failed")
PeerFailureWebhook ==
    /\ peer.pc = "fail_webhook"
    /\ \E post \in PostResults :
         /\ posts' = [posts EXCEPT ![PeerJobId] =
                          Append(@, [status |-> FAILED, parsed_data |-> NULL,
                                     error |-> store[PeerJobId].last_error])]
         /\ store' = [store EXCEPT ![PeerJobId].webhook_meta =
                          WebhookBookkeeping(@, post, TRUE, TRUE, calls[PeerJobId] + 1)]
    /\ calls' = [calls EXCEPT ![PeerJobId] = @ + 1]
    /\ peer' = [peer EXCEPT !.pc = "next"]
    /\ UNCHANGED <<is_running, marks, PeerFrame, fnVars>>

\* _process_batch: on to the next job of the batch.
PeerNextJob ==
    /\ peer.pc = "next"
    /\ peer' = [peer EXCEPT !.pc = AfterJob(peer.idx, Len(peer.batch), peer.raised),
                            !.idx = peer.idx + 1,
                            !.raised = FALSE]
    /\ UNCHANGED <<store, is_running, posts, calls, marks, PeerFrame, fnVars>>

\* The steps of the second loop.
Peer ==
    \/ PeerStart
    \/ PeerLoopCheck
    \/ PeerFetch
    \/ PeerSleep
    \/ PeerMark
    \/ PeerExtract
    \/ PeerComplete
    \/ PeerCompletedWebhook
    \/ PeerHandleFailure
    \/ PeerFailureWebhook
    \/ PeerNextJob

\* One job, with or without retries and webhook, and a second loop of kind k.
PeerInit(k) ==
    \E r \in 0..MaxRetriesBound, url \in {NULL, "https://hook"} :
        InitWithPeer([j \in 1..1 |-> ParsingJob(j, 1, r, url, "gemini")],
                     [NoPeer EXCEPT !.kind = k])

\* Two worker processes polling one collection, neither being stopped.
TwoWorkersInit == PeerInit("instance")

NextTwoWorkers == Worker({TRUE}) \/ Peer

SpecTwoWorkers == TwoWorkersInit /\ [][NextTwoWorkers]_vars

\* One worker object on which start() is called twice and stop() at any time
\* after the first loop began.
RestartInit == PeerInit("loop")

NextRestart == Worker({TRUE}) \/ Stop \/ Peer

SpecRestart == RestartInit /\ [][NextRestart]_vars

\* ---------------------------------------------------------- consolidation
\* JSON values of a parsed document: [type, items].  A string is the sequence
\* of its parts ("" is the empty sequence), a list the sequence of its items.
None == [type |-> "none", items |-> <<>>]
Str(parts) == [type |-> "str", items |-> parts]
List(xs) == [type |-> "list", items |-> xs]
\* A truthy value that is neither a string nor a list; items is its str().
Other == [type |-> "other", items |-> <<"other">>]
Num(n) == [type |-> "num", items |-> <<n>>]

Range(f) == {f[i] : i \in DOMAIN f}

\* Python truth of a value.
Truthy(v) ==
    CASE v.type = "none" -> FALSE
      [] v.type = "str"  -> v.items /= <<>>
      [] v.type = "list" -> v.items /= <<>>
      [] v.type = "num"  -> v.items /= <<0>>
      [] OTHER           -> TRUE

\* `key in data and data[key]`
Has(data, key) == key \in DOMAIN data /\ Truthy(data[key])

\* dict.pop(key, None) on a copy, and dict[key] = v.
Drop(data, key) == [k \in DOMAIN data \ {key} |-> data[k]]
Put(data, key, v) == [k \in DOMAIN data \cup {key} |-> IF k = key THEN v ELSE data[k]]

\* The single-document branch keeping batch_info.
MergeSingle_KeepsBatchInfo(parsedResults) == parsedResults[1].data

\* `if len(parsed_results) == 1`: a copy of the data without batch_info.
MergeSingle(parsedResults) == Drop(parsedResults[1].data, "batch_info")

array_fields == <<"medications", "procedures", "lab_results",
                  "imaging_findings", "recommendations">>

\* item["source_file"] = filename for the items that are dicts.
Tagged(item, filename) ==
    IF item.type = "dict" THEN [item EXCEPT !.source_file = filename] ELSE item

\* One round of `for field in array_fields`.
MergeArrayField(cons, data, field, filename) ==
    IF ~Has(data, field) THEN cons
    ELSE LET c0     == IF Has(cons, field) THEN cons[field] ELSE List(<<>>)
             c1     == IF c0.type /= "list" THEN List(<<c0>>) ELSE c0
             source == IF data[field].type = "list" THEN data[field].items
                       ELSE <<data[field]>>
         IN  Put(cons, field,
                 List(c1.items \o [i \in DOMAIN source |-> Tagged(source[i], filename)]))

RECURSIVE MergeArrayFields(_, _, _, _)
MergeArrayFields(cons, data, filename, i) ==
    IF i > Len(array_fields) THEN cons
    ELSE MergeArrayFields(MergeArrayField(cons, data, array_fields[i], filename),
                          data, filename, i + 1)

\* `for diag in source_diagnosis: if diag and diag not in ...: append`
RECURSIVE AppendNew(_, _)
AppendNew(acc, source) ==
    IF source = <<>> THEN acc
    ELSE LET diag == Head(source)
         IN  AppendNew(IF diag /= "" /\ diag \notin Range(acc)
                       THEN Append(acc, diag) ELSE acc,
                       Tail(source))

\* The diagnosis block of the merge loop.
MergeDiagnosis(cons, data) ==
    IF ~Has(data, "diagnosis") THEN cons
    ELSE LET c0 == IF Has(cons, "diagnosis") THEN cons["diagnosis"] ELSE List(<<>>)
             c1 == CASE c0.type = "str"  -> List(c0.items)
                     [] c0.type = "list" -> c0
                     [] OTHER            -> List(<<>>)
             source == data["diagnosis"].items
         IN  Put(cons, "diagnosis", List(AppendNew(c1.items, source)))

\* The photo_comparison block the handler starts from when the consolidated
\* document has none.
EmptyPhotoComparison ==
    [type |-> "dict", images_found |-> <<>>, comparison_performed |-> FALSE,
     similarity_percentage |-> None, comparison_details |-> None,
     notes |-> Str(<<>>)]

\* dict.get("notes", ""): a block without the key has notes of type "absent".
GetNotes(block) == IF block.notes.type = "absent" THEN Str(<<>>) ELSE block.notes

\* The photo_comparison block of the handler's merge loop.
MergePhotoComparison(cons, data, filename) ==
    IF ~Has(data, "photo_comparison") THEN cons
    ELSE LET pc_data == data["photo_comparison"]
             b0 == IF Has(cons, "photo_comparison") THEN cons["photo_comparison"]
                   ELSE EmptyPhotoComparison
             offset == Len(b0.images_found)
             b1 == IF pc_data.images_found /= <<>>
                   THEN [b0 EXCEPT !.images_found =
                            @ \o [i \in DOMAIN pc_data.images_found |->
                                    [pc_data.images_found[i] EXCEPT
                                        !.image_number = @ + offset,
                                        !.source_file = filename]]]
                   ELSE b0
             b2 == IF pc_data.comparison_performed /\ ~b1.comparison_performed
                   THEN [b1 EXCEPT !.comparison_performed = TRUE] ELSE b1
             b3 == IF pc_data.similarity_percentage.type /= "none"
                      /\ b2.similarity_percentage.type = "none"
                   THEN [b2 EXCEPT !.similarity_percentage = pc_data.similarity_percentage]
                   ELSE b2
             b4 == IF Truthy(pc_data.comparison_details) /\ ~Truthy(b3.comparison_details)
                   THEN [b3 EXCEPT !.comparison_details = pc_data.comparison_details]
                   ELSE b3
             b5 == IF pc_data.notes.type = "str" /\ Truthy(pc_data.notes)
                   THEN [b4 EXCEPT !.notes =
                            IF Truthy(GetNotes(b4))
                            THEN Str(GetNotes(b4).items \o <<"|">> \o pc_data.notes.items)
                            ELSE pc_data.notes]
                   ELSE b4
         IN  Put(cons, "photo_comparison", b5)

\* The body of `for result in parsed_results[1:]`, from document i on; photo
\* says whether it has the photo_comparison block (the handler's has).
RECURSIVE MergeFrom(_, _, _, _)
MergeFrom(cons, parsedResults, i, photo) ==
    IF i > Len(parsedResults) THEN cons
    ELSE LET data     == parsedResults[i].data
             filename == parsedResults[i].filename
             a == MergeArrayFields(cons, data, filename, 1)
             d == MergeDiagnosis(a, data)
             p == IF photo THEN MergePhotoComparison(d, data, filename) ELSE d
         IN  MergeFrom(p, parsedResults, i + 1, photo)

\* ParsingWorker._merge_parsed_results
merge_parsed_results(parsedResults) ==
    IF parsedResults = <<>> THEN <<>>
    ELSE IF Len(parsedResults) = 1 THEN MergeSingle(parsedResults)
    ELSE MergeFrom(MergeSingle(parsedResults), parsedResults, 2, FALSE)

\* The handler's check after the loop: 2 or more images, no comparison.
NeedsWarning(cons) ==
    /\ Has(cons, "photo_comparison")
    /\ Len(cons["photo_comparison"].images_found) >= 2
    /\ ~cons["photo_comparison"].comparison_performed

\* pc.get('notes', '') + " | WARNING: ..." with notes None: TypeError.
WarningRaises(cons) ==
    NeedsWarning(cons) /\ cons["photo_comparison"].notes.type = "none"

\* (pc.get('notes', '') + " | WARNING: ...").strip()
WithWarning(cons) ==
    IF NeedsWarning(cons)
    THEN [cons EXCEPT !["photo_comparison"].notes =
              Str(GetNotes(cons["photo_comparison"]).items \o <<"|", "WARNING">>)]
    ELSE cons

\* _merge_parsed_reports of the upload handler, and whether it raises.
MergeReportsLoop(parsedResults) ==
    MergeFrom(MergeSingle(parsedResults), parsedResults, 2, TRUE)

merge_parsed_reports_raises(parsedResults) ==
    Len(parsedResults) > 1 /\ WarningRaises(MergeReportsLoop(parsedResults))

merge_parsed_reports(parsedResults) ==
    IF parsedResults = <<>> THEN <<>>
    ELSE IF Len(parsedResults) = 1 THEN MergeSingle(parsedResults)
    ELSE WithWarning(MergeReportsLoop(parsedResults))

\* What the call leaves of the first document.  consolidated is a shallow
\* copy of it: a non-empty list (and, in the handler, a photo_comparison
\* block) is the same object in both and is extended in place, while a field
\* that is empty or not a list is rebound to a new list in the copy only.
FirstAfter(data, cons, photo) ==
    [k \in DOMAIN data |->
        IF /\ k \in Range(array_fields) \cup {"diagnosis"}
           /\ data[k].type = "list" /\ Truthy(data[k])
        THEN cons[k]
        ELSE IF photo /\ k = "photo_comparison" /\ Truthy(data[k])
        THEN cons[k]
        ELSE data[k]]

\* What the call leaves of a later document: `item["source_file"] = filename`
\* is an assignment to the document's own items.
LaterAfter(data, filename) ==
    [k \in DOMAIN data |->
        IF k \in Range(array_fields) /\ Truthy(data[k])
        THEN IF data[k].type = "list"
             THEN List([i \in DOMAIN data[k].items |-> Tagged(data[k].items[i], filename)])
             ELSE Tagged(data[k], filename)
        ELSE data[k]]

\* The caller's documents after a consolidation that built cons.
InputsAfter(parsedResults, cons, photo) ==
    IF Len(parsedResults) <= 1 THEN parsedResults
    ELSE [i \in DOMAIN parsedResults |->
            [parsedResults[i] EXCEPT !.data =
                IF i = 1 THEN FirstAfter(@, cons, photo)
                ELSE LaterAfter(@, parsedResults[i].filename)]]

\* ------------------------------------------- documents to consolidate
AllDiagnoses == <<"asthma", "bronchitis", "copd", "diabetes">>
Diagnoses == {AllDiagnoses[i] : i \in 1..MaxDiagnoses}

Filenames == <<"a.pdf", "b.pdf", "c.pdf", "d.pdf">>

RECURSIVE SeqsUpTo(_, _)
SeqsUpTo(S, n) ==
    IF n = 0 THEN {<<>>}
    ELSE LET shorter == SeqsUpTo(S, n - 1)
         IN  shorter \cup {Append(q, x) : q \in shorter, x \in S}

\* What an extractor may give as diagnosis.
DiagnosisValues ==
    {None, Str(<<>>), Other}
        \cup {Str(<<d>>) : d \in Diagnoses}
        \cup {List(q) : q \in SeqsUpTo(Diagnoses, MaxDiagnoses)}

\* The images of one document, numbered 1..k.
Images(k) == [i \in 1..k |-> [image_number |-> i, source_file |-> "own"]]

\* What an extractor may give as photo_comparison: null, or a block.
PhotoValues ==
    {None} \cup
    {[type |-> "dict", images_found |-> Images(k), comparison_performed |-> c,
      similarity_percentage |-> None, comparison_details |-> None, notes |-> n] :
        k \in 0..MaxImages, c \in BOOLEAN,
        n \in {[type |-> "absent", items |-> <<>>], None, Str(<<>>), Str(<<"note">>)}}

Medication == [type |-> "dict", name |-> "aspirin", source_file |-> NULL]

\* A document with the keys in keys.
Doc(keys, diagnosis, photo, meds) ==
    [k \in keys \cup {"patient_name"} |->
        CASE k = "diagnosis"        -> diagnosis
          [] k = "photo_comparison" -> photo
          [] k = "medications"      -> List(meds)
          [] k = "batch_info"       -> Other
          [] OTHER                  -> Str(<<"Ann">>)]

\* Documents that differ in their diagnosis.
DiagnosisDocs ==
    {Doc({}, None, None, <<>>)} \cup
    {Doc({"diagnosis"}, d, None, <<>>) : d \in DiagnosisValues}

\* Documents that differ in their photo_comparison.
PhotoDocs ==
    {Doc({}, None, None, <<>>)} \cup
    {Doc({"photo_comparison"}, None, p, <<>>) : p \in PhotoValues}

\* Documents of every kind.
AnyDocs ==
    {Doc(keys, d, p, <<Medication>>) :
        keys \in SUBSET {"diagnosis", "photo_comparison", "medications", "batch_info"},
        d \in DiagnosisValues, p \in PhotoValues}

Ibuprofen == [type |-> "dict", name |-> "ibuprofen", source_file |-> NULL]

\* What an extractor may give as a list field: null, a list of records and
\* strings, or a value that is no list.
ArrayValues ==
    {None, List(<<>>), List(<<Ibuprofen>>), List(<<Str(<<"rest">>)>>),
     List(<<Ibuprofen, Str(<<"rest">>)>>), Ibuprofen, Str(<<"rest">>)}

\* Documents that differ in one list field.
ArrayDocs ==
    {Doc({}, None, None, <<>>)} \cup
    {[k \in {"patient_name", field} |->
        IF k = field THEN v ELSE Str(<<"Ann">>)] :
        field \in {"medications", "recommendations"}, v \in ArrayValues}

\* The list _parse_files builds of the documents f[1] .. f[n].
ResultList(f, n) == [i \in 1..n |-> [filename |-> Filenames[i], data |-> f[i]]]

MergeInitWith(parsedResults) ==
    /\ WorkerInit(<<>>)
    /\ fn = "ready"
    /\ parsed_results = parsedResults
    /\ parsed_results_after = parsedResults
    /\ consolidated = <<>>
    /\ confidence_in = <<>>
    /\ confidence_out = <<>>

\* One document of any kind, or several that differ in one field.
MergeInit ==
    \/ \E d \in AnyDocs : MergeInitWith(ResultList(<<d>>, 1))
    \/ \E n \in 2..MaxDocs :
          \/ \E f \in [1..n -> DiagnosisDocs] : MergeInitWith(ResultList(f, n))
          \/ \E f \in [1..n -> PhotoDocs] : MergeInitWith(ResultList(f, n))
          \/ \E f \in [1..n -> ArrayDocs] : MergeInitWith(ResultList(f, n))

\* The worker's per-file fallback consolidating parsed_results.
CallWorkerMerge ==
    /\ fn = "ready"
    /\ consolidated' = merge_parsed_results(parsed_results)
    /\ parsed_results_after' =
          InputsAfter(parsed_results, merge_parsed_results(parsed_results), FALSE)
    /\ fn' = "worker_merged"
    /\ UNCHANGED <<parsed_results, confidence_in, confidence_out>>
    /\ UNCHANGED workerVars

\* The upload handler consolidating parsed_results.
CallHandlerMerge ==
    /\ fn = "ready"
    /\ IF merge_parsed_reports_raises(parsed_results)
       THEN /\ fn' = "handler_raised"
            /\ consolidated' = <<>>
            /\ parsed_results_after' =
                  InputsAfter(parsed_results, MergeReportsLoop(parsed_results), TRUE)
       ELSE /\ fn' = "handler_merged"
            /\ consolidated' = merge_parsed_reports(parsed_results)
            /\ parsed_results_after' =
                  InputsAfter(parsed_results, merge_parsed_reports(parsed_results), TRUE)
    /\ UNCHANGED <<parsed_results, confidence_in, confidence_out>>
    /\ UNCHANGED workerVars

MergeNext == CallWorkerMerge \/ CallHandlerMerge

MergeSpec == MergeInit /\ [][MergeNext]_vars

\* ------------------------------------------------------------ confidence
EXPECTED_FIELDS ==
    <<"patient_name", "patient_id", "encounter_date", "diagnosis", "medications",
      "lab_results", "imaging_findings", "vital_signs", "clinician_name">>

\* The strings of the documents scored below, and what the code's tests say
\* of them: str(value).strip() is empty; len >= 2 and the name pattern
\* matches; one of the date patterns matches; len >= 3.
IsBlank(parts) == parts \in {<<>>, <<" ">>}
IsValidName(parts) == parts = <<"Ann">>
IsValidDate(parts) == parts = <<"2025-11-03">>
IsLongId(parts) == parts = <<"P123">>

\* `value and str(value).strip()` of _check_completeness.
IsPresent(data, field) ==
    /\ Has(data, field)
    /\ data[field].type = "str" => ~IsBlank(data[field].items)

CountOf(S) == Cardinality(S)

PresentFields(data) == {f \in Range(EXPECTED_FIELDS) : IsPresent(data, f)}
MissingFields(data) == {f \in Range(EXPECTED_FIELDS) : f \notin DOMAIN data}

date_fields == <<"encounter_date", "date_of_birth", "admission_date">>

\* The format issues _check_formats finds, as (field, points deducted).
FormatIssues(data) ==
    {<<"patient_name", 5>> : x \in {1} \cap
        (IF Has(data, "patient_name") /\ ~IsValidName(data["patient_name"].items)
         THEN {1} ELSE {})}
    \cup {<<f, 3>> : f \in {g \in Range(date_fields) :
                               Has(data, g) /\ ~IsValidDate(data[g].items)}}
    \cup {<<"patient_id", 5>> : x \in {1} \cap
        (IF Has(data, "patient_id") /\ ~IsLongId(data["patient_id"].items)
         THEN {1} ELSE {})}

RECURSIVE SumPoints(_)
SumPoints(S) ==
    IF S = {} THEN 0
    ELSE LET x == CHOOSE y \in S : TRUE IN x[2] + SumPoints(S \ {x})

Max(a, b) == IF a >= b THEN a ELSE b
Min(a, b) == IF a <= b THEN a ELSE b

\* _check_formats: 30 points less the deductions, not below 0.
FormatScore(data) == Max(0, 30 - SumPoints(FormatIssues(data)))

\* _check_consistency: 20 points less the deductions, not below 0.
ConsistencyScore(data) ==
    Max(0, 20 - (IF Has(data, "medications") /\ ~Has(data, "diagnosis") THEN 5 ELSE 0)
              - (IF Has(data, "lab_results")
                    /\ data["lab_results"].type \notin {"list", "dict"} THEN 3 ELSE 0))

\* int(x) of Python for x = n / d, d > 0: rounding towards zero.
IntOf(n, d) == IF n >= 0 THEN n \div d ELSE -((-n) \div d)

\* total_score in ninetieths of a point: (present / 9) * 40, the format and
\* consistency scores and, `if gemini_confidence:`, min(10, confidence / 10).
TotalScore90(data, geminiConfidence) ==
    400 * CountOf(PresentFields(data))
    + 90 * FormatScore(data)
    + 90 * ConsistencyScore(data)
    + (IF Truthy(geminiConfidence)
       THEN Min(900, 9 * geminiConfidence.items[1]) ELSE 0)

\* The bands with > in place of >=.
Quality_Above(score) ==
    IF score > 90 THEN "Excellent"
    ELSE IF score > 80 THEN "Very Good"
    ELSE IF score > 70 THEN "Good"
    ELSE IF score > 60 THEN "Fair"
    ELSE "Poor"

\* _generate_summary: the band of the score.
Quality(score) ==
    IF score >= 90 THEN "Excellent"
    ELSE IF score >= 80 THEN "Very Good"
    ELSE IF score >= 70 THEN "Good"
    ELSE IF score >= 60 THEN "Fair"
    ELSE "Poor"

\* ConfidenceCalculator.calculate_confidence: the score, what the summary is
\* made of and the part scores of validation_details (completeness in
\* ninetieths of a point).
calculate_confidence(data, geminiConfidence) ==
    IF DOMAIN data = {}
    THEN [score |-> 0, summary |-> "No data extracted", present |-> 0,
          missing |-> 0, format_warnings |-> 0,
          completeness90 |-> 0, format_score |-> 0, consistency_score |-> 0]
    ELSE LET confidence_score == Min(100, IntOf(TotalScore90(data, geminiConfidence), 90))
         IN  [score |-> confidence_score,
              summary |-> Quality(confidence_score),
              present |-> CountOf(PresentFields(data)),
              missing |-> CountOf(MissingFields(data)),
              format_warnings |-> CountOf(FormatIssues(data)),
              completeness90 |-> 400 * CountOf(PresentFields(data)),
              format_score |-> FormatScore(data),
              consistency_score |-> ConsistencyScore(data)]

\* ------------------------------------------------- documents to score
\* The extractor's own confidence: none, or a number.
GeminiConfidences ==
    {None} \cup {Num(85 * k) : k \in (-ConfidenceSteps)..ConfidenceSteps}

Absent == [type |-> "absent", items |-> <<>>]

\* A document from the value of each key, keys with value Absent left out.
DocOf(values) == [k \in {x \in DOMAIN values : values[x] /= Absent} |-> values[k]]

ScoredDocs ==
    {DocOf([patient_name |-> name, patient_id |-> id, encounter_date |-> date,
            date_of_birth |-> extra[1], admission_date |-> extra[2],
            diagnosis |-> diag, medications |-> meds, lab_results |-> labs,
            imaging_findings |-> rest[1], vital_signs |-> rest[2],
            clinician_name |-> rest[2], report_title |-> title]) :
        name \in {Absent, Str(<<" ">>), Str(<<"Ann">>), Str(<<"4nn">>)},
        id \in {Absent, Str(<<>>), Str(<<"P123">>), Str(<<"P1">>)},
        date \in {Absent, Str(<<>>), Str(<<"2025-11-03">>), Str(<<"soon">>)},
        extra \in {<<Absent, Absent>>, <<Str(<<"2025-11-03">>), Str(<<"soon">>)>>},
        diag \in {Absent, List(<<>>), List(<<"asthma">>)},
        meds \in {Absent, List(<<Medication>>)},
        labs \in {Absent, List(<<Other>>), Str(<<"normal">>)},
        rest \in {<<Absent, Absent>>, <<List(<<Other>>), Absent>>,
                  <<List(<<Other>>), Str(<<"ok">>)>>},
        title \in {Absent, Str(<<"Report">>)}}

ConfidenceInit ==
    /\ WorkerInit(<<>>)
    /\ fn = "ready"
    /\ parsed_results = <<>>
    /\ parsed_results_after = <<>>
    /\ consolidated = <<>>
    /\ confidence_in \in [parsed_data : ScoredDocs, gemini_confidence : GeminiConfidences]
    /\ confidence_out = <<>>

\* calculate_confidence(parsed_data, gemini_confidence)
CallConfidence ==
    /\ fn = "ready"
    /\ confidence_out' = calculate_confidence(confidence_in.parsed_data,
                                              confidence_in.gemini_confidence)
    /\ fn' = "scored"
    /\ UNCHANGED <<parsed_results, parsed_results_after, consolidated, confidence_in>>
    /\ UNCHANGED workerVars

ConfidenceSpec == ConfidenceInit /\ [][CallConfidence]_vars

\* ----------------------------------------------------------- properties
Terminal == {COMPLETED, FAILED}

JobPcs == {"mark", "download", "parse", "confidence", "persist", "webhook",
           "handler", "fail_webhook", "next"}

\* The worker is inside _process_job for job j.
Processing(j) == pc \in JobPcs /\ JobId = j

BatchIds == {batch[i].id : i \in DOMAIN batch}

C2_TerminalAbsorbing ==
    [][\A j \in Jobs : store[j].status \in Terminal
                          => store'[j].status = store[j].status]_vars

C2_Witness ==
    \E j \in Jobs : /\ store[j].status = COMPLETED
                    /\ pc = "next" /\ JobId = j
                    /\ cur.post = "raise"

\* C3: a job is completed if and only if its parsed_data is non-null.
C3_ParsedDataIffCompleted ==
    \A j \in Jobs : store[j].status = COMPLETED <=> store[j].parsed_data /= NULL

C3_Witness ==
    \E j, k \in Jobs : /\ store[j].status = COMPLETED
                       /\ store[j].retry_count >= 1
                       /\ store[j].parsed_data /= NULL
                       /\ store[k].status = FAILED

\* C4: with a worker that keeps running and store calls that return, every
\* job eventually is completed or failed.
C4_EveryJobTerminates ==
    <>[](\A j \in Jobs : store[j].status \in Terminal)

\* The long queue is done: its oldest job failed after its retry, and the
\* job that did not fit the first batch is done too.
C4_Witness ==
    /\ Cardinality(Jobs) > BATCH_SIZE
    /\ \A j \in Jobs : store[j].status \in Terminal
    /\ store[1].retry_count = 1 /\ store[1].status = FAILED

\* C5: when _process_job returns for a job it had marked processing and an
\* exception was raised on the way, the job is pending or failed.
C5_NeverLeftProcessing ==
    (pc = "next" /\ cur.marked /\ cur.raised)
        => store[JobId].status \in {PENDING, FAILED}

\* C6: a cycle ends only after every job of its batch was attempted, whatever
\* was raised on the way, and the loop ends only on a stop request.
C6_BatchAndLoopSurvive ==
    /\ pc = "sleep" => attempted = BatchIds
    /\ pc \in JobPcs => attempted = {batch[i].id : i \in 1..(idx - 1)}
    /\ pc = "stopped" => stopRequested

C6_Witness ==
    /\ pc = "sleep"
    /\ Len(batch) = 2
    /\ store[batch[1].id].retry_count > batch[1].doc.retry_count
    /\ store[batch[2].id].status = COMPLETED

C8_NoUrlNoDelivery ==
    \A j \in Jobs :
        store[j].webhook_meta.webhook_url = NULL =>
            /\ posts[j] = <<>>
            /\ calls[j] = 0
            /\ store[j].webhook_meta = WebhookMeta(NULL)

C8_Witness ==
    \E j, k \in Jobs :
        /\ store[j].webhook_meta.webhook_url = NULL
        /\ store[k].webhook_meta.webhook_url = NULL
        /\ store[j].status = COMPLETED /\ store[j].retry_count >= 1
        /\ store[k].status = FAILED

C11_OldestPendingFirst ==
    pc \in JobPcs \cup {"sleep"} =>
        /\ Len(batch) <= BATCH_SIZE
        /\ \A i \in DOMAIN batch : batch[i].doc.status = PENDING
        /\ \A i, k \in DOMAIN batch :
              i < k => batch[i].doc.created_at < batch[k].doc.created_at
        /\ \A j \in Jobs \ BatchIds :
              store[j].status = PENDING =>
                  /\ Len(batch) = BATCH_SIZE
                  /\ \A i \in DOMAIN batch :
                        batch[i].doc.created_at < store[j].created_at
        /\ pc \in JobPcs => attempted = {batch[i].id : i \in 1..(idx - 1)}

C11_Witness ==
    /\ pc = "persist" /\ idx = BATCH_SIZE
    /\ Len(batch) = BATCH_SIZE
    /\ \E j \in Jobs \ BatchIds : store[j].status = PENDING
    /\ store[1].status = PENDING /\ store[1].retry_count = 1

C13_BatchRunsToCompletion ==
    pc = "stopped" =>
        /\ attempted = BatchIds
        /\ \A j \in BatchIds : store[j].status /= PROCESSING

\* What the worker never writes.
Identity(job) ==
    <<job.tenant_id, job.project_id, job.report_id, job.files, job.max_retries,
      job.created_at, job.model_name, job.webhook_meta.webhook_url>>

\* C14: no step changes a job's tenant_id, project_id, report_id, files,
\* max_retries, created_at, model_name or webhook_url.
C14_IdentityFrame ==
    [][\A j \in Jobs : Identity(store'[j]) = Identity(store[j])]_vars

C14_Witness ==
    \E j \in Jobs :
        /\ store[j].status = FAILED
        /\ store[j].retry_count = 1
        /\ store[j].webhook_meta.attempts = 1
        /\ Identity(store[j]) =
              <<"tenant", "project", "report", MaxFiles, 1, j, "gemini", "https://hook">>

\* C15: a job becomes completed only in an attempt in which at least one file
\* was downloaded and at least one was extracted; an attempt in which no file
\* downloads or none is extracted goes to the failure handler with the job
\* not completed.
C15_CompletedNeedsParsedFile ==
    [][/\ \A j \in Jobs :
             (store[j].status /= COMPLETED /\ store'[j].status = COMPLETED)
                 => /\ pc = "persist" /\ JobId = j
                    /\ cur.pdf >= 1 /\ cur.parsedFiles >= 1
       /\ (pc = "download" /\ pc' \notin {"download", "stopped"} /\ cur'.pdf = 0)
             => pc' = "handler" /\ store'[JobId].status /= COMPLETED
       /\ (pc = "parse" /\ pc' \notin {"parse", "stopped"} /\ cur'.parsedFiles = 0)
             => pc' = "handler" /\ store'[JobId].status /= COMPLETED]_vars

C15_Witness ==
    /\ pc = "next"
    /\ store[JobId].status = COMPLETED
    /\ JobDoc.retry_count = 1
    /\ JobDoc.files = 2 /\ cur.pdf = 2
    /\ cur.perFileCalls = 2 /\ cur.parsedFiles = 1

\* C16: on a completed job successful_parses is the number of files that
\* were parsed, failed_parses is files_processed - successful_parses and
\* files_processed is the number of files of the job.
C16_ParseCountsExact ==
    (pc \in {"webhook", "next"} /\ store[JobId].status = COMPLETED) =>
        /\ store[JobId].successful_parses = cur.parsedFiles
        /\ store[JobId].failed_parses =
              store[JobId].files_processed - store[JobId].successful_parses
        /\ store[JobId].files_processed = store[JobId].files

DiagnosesOf(data) ==
    IF "diagnosis" \in DOMAIN data /\ data["diagnosis"].type \in {"str", "list"}
    THEN data["diagnosis"].items ELSE <<>>

RECURSIVE AllDiagnosesOf(_, _)
AllDiagnosesOf(parsedResults, i) ==
    IF i > Len(parsedResults) THEN <<>>
    ELSE DiagnosesOf(parsedResults[i].data) \o AllDiagnosesOf(parsedResults, i + 1)

\* q without the repetitions of earlier elements.
RECURSIVE FirstSeen(_)
FirstSeen(q) ==
    IF q = <<>> THEN <<>>
    ELSE LET front == FirstSeen(SubSeq(q, 1, Len(q) - 1))
         IN  IF q[Len(q)] \in Range(front) THEN front ELSE Append(front, q[Len(q)])

\* C18: for two or more documents whose diagnosis is a string or a list, the
\* consolidated diagnosis is a list holding every diagnosis of every document
\* once, in order of first appearance.
C18_DiagnosisUnion ==
    (/\ fn \in {"worker_merged", "handler_merged"}
     /\ Len(parsed_results) >= 2
     /\ \A i \in DOMAIN parsed_results :
           "diagnosis" \in DOMAIN parsed_results[i].data =>
               parsed_results[i].data["diagnosis"].type \in {"str", "list"}
     /\ AllDiagnosesOf(parsed_results, 1) /= <<>>)
        => /\ "diagnosis" \in DOMAIN consolidated
           /\ consolidated["diagnosis"] =
                 List(FirstSeen(AllDiagnosesOf(parsed_results, 1)))

\* Documents with a photo_comparison block, and their images.
RECURSIVE ImagesOf(_, _)
ImagesOf(parsedResults, i) ==
    IF i > Len(parsedResults) THEN 0
    ELSE (IF Has(parsedResults[i].data, "photo_comparison")
          THEN Len(parsedResults[i].data["photo_comparison"].images_found) ELSE 0)
         + ImagesOf(parsedResults, i + 1)

\* C19: the handler's merge of the photo_comparison blocks of two or more
\* documents returns images_found numbered 1..N, N the number of images of
\* all documents, and, when N >= 2 and comparison_performed is false, notes
\* that end with the warning.
C19_PhotoMergeNumbered ==
    (/\ fn \in {"handler_merged", "handler_raised"}
     /\ Len(parsed_results) >= 2
     /\ \E i \in DOMAIN parsed_results : Has(parsed_results[i].data, "photo_comparison"))
        => /\ fn = "handler_merged"
           /\ LET block == consolidated["photo_comparison"]
                  N     == ImagesOf(parsed_results, 1)
              IN  /\ Len(block.images_found) = N
                  /\ \A i \in 1..N : block.images_found[i].image_number = i
                  /\ (N >= 2 /\ ~block.comparison_performed) =>
                        /\ block.notes.type = "str"
                        /\ block.notes.items /= <<>>
                        /\ block.notes.items[Len(block.notes.items)] = "WARNING"

\* C20: whatever the document and the extractor's own confidence, the score
\* calculate_confidence returns is an integer from 0 to 100.
C20_ScoreWithinBounds ==
    fn = "scored" => confidence_out.score \in 0..100

C23_OncePerCycle ==
    /\ [](/\ \A i, k \in DOMAIN batch : batch[i].id = batch[k].id => i = k
          /\ pc \in JobPcs => JobId \notin attempted)
    /\ [][/\ batch' /= batch => pc \in {"fetch", "sleep"}
          /\ attempted \ attempted' /= {} => pc = "sleep" /\ pc' = "loop"]_vars

C23_Witness ==
    /\ pc = "sleep"
    /\ \E j \in attempted : /\ store[j].status = PENDING
                            /\ store[j].retry_count = 1
                            /\ j \in BatchIds

\* C24: the job is processing with started_at set before any file is
\* downloaded or extracted, and an attempt cut short at any later step,
\* before the completion or the failure handler, leaves the job processing.
C24_MarkedBeforeWork ==
    /\ pc \in {"download", "parse", "confidence", "persist"}
          => /\ store[JobId].status = PROCESSING
             /\ store[JobId].started_at = "set"
    /\ (cur.pdf > 0 \/ cur.consolidatedCalls + cur.perFileCalls > 0) => cur.marked
    /\ (/\ pc = "stopped" /\ idx \in DOMAIN batch
        /\ cur.marked /\ ~cur.raised
        /\ store[JobId].status /= COMPLETED)
          => store[JobId].status = PROCESSING

C24_Witness ==
    /\ pc = "stopped" /\ idx \in DOMAIN batch
    /\ cur.marked /\ ~cur.raised /\ cur.pdf >= 1 /\ cur.parsed /= NULL
    /\ store[JobId].status = PROCESSING
    /\ store[JobId].started_at = "set"

\* C25: with more than one downloaded file exactly one consolidated
\* extraction is tried, and the per-file extraction (and the merge) follows
\* only if it raised or returned nothing; with exactly one file there is no
\* consolidated call and no merge.
C25_ConsolidatedFirst ==
    LET extracted == cur.consolidatedCalls + cur.perFileCalls > 0
    IN  /\ pc \in {"confidence", "persist", "webhook"} => extracted
        /\ (extracted /\ cur.pdf > 1) =>
              /\ cur.consolidatedCalls = 1
              /\ cur.consolidatedResult \in {"data", "nothing"}
              /\ cur.perFileCalls > 0 <=> cur.consolidatedResult = "nothing"
        /\ cur.merged => cur.perFileCalls = cur.pdf /\ cur.parsedFiles > 1
        /\ cur.pdf = 1 => /\ cur.consolidatedCalls = 0
                          /\ ~cur.merged
                          /\ extracted => cur.perFileCalls = 1

C25_Witness ==
    /\ cur.pdf = 2 /\ cur.consolidatedCalls = 1
    /\ cur.consolidatedResult = "nothing"
    /\ cur.perFileCalls = 2 /\ cur.merged
    /\ pc = "next" /\ store[JobId].status = COMPLETED

\* Positions of the second loop inside _process_job.
PeerJobPcs == {"mark", "extract", "persist", "webhook", "handler",
               "fail_webhook", "next"}

\* C26: with two workers on one collection the claim step is unconditional:
\* a worker that fetched a job as pending marks it processing and goes on to
\* extract it whatever the job's status has become, so both workers can
\* process the same job, write its completion twice and POST its webhook
\* twice.
C26_ClaimNotExclusive ==
    /\ [][/\ (pc = "mark" /\ pc' /= "mark")
                => /\ JobDoc.status = PENDING
                   /\ store'[JobId].status = PROCESSING
                   /\ pc' = "download"
          /\ (peer.pc = "mark" /\ peer'.pc /= "mark")
                => /\ PeerJobDoc.status = PENDING
                   /\ store'[PeerJobId].status = PROCESSING
                   /\ peer'.pc = "extract"]_vars
    /\ [](\A j \in Jobs : Len(posts[j]) <= marks[j])

C26_Witness ==
    \E j \in Jobs :
        /\ pc = "next" /\ JobId = j /\ cur.parsed = ParsedData
        /\ peer.pc = "next" /\ PeerJobId = j /\ ~peer.raised
        /\ store[j].status = COMPLETED
        /\ marks[j] = 2
        /\ Len(posts[j]) = 2
        /\ posts[j][1].status = COMPLETED /\ posts[j][2].status = COMPLETED

\* C30: whatever the start() and stop() calls, at most one polling loop is
\* inside a batch at any time.
C30_OneLoopActive == ~(pc \in JobPcs /\ peer.pc \in PeerJobPcs)

Merged == {"worker_merged", "handler_merged"}

\* C27: the worker's merge returns, for every list of documents, the document
\* the upload handler's consolidation returns, photo_comparison included.
C27_WorkerMergeIsHandlerMerge ==
    (fn = "worker_merged" /\ ~merge_parsed_reports_raises(parsed_results))
        => consolidated = merge_parsed_reports(parsed_results)

\* C28: consolidating two or more documents leaves every input document as
\* it was before the call.
C28_InputsUnchanged ==
    (fn \in Merged \cup {"handler_raised"} /\ Len(parsed_results) >= 2)
        => parsed_results_after = parsed_results

\* The items document data gives for a list field: those of its list, or the
\* value itself when it is no list; none when the field is absent or null.
ItemsOf(data, field) ==
    IF field \notin DOMAIN data \/ data[field].type = "none" THEN <<>>
    ELSE IF data[field].type = "list" THEN data[field].items
    ELSE <<data[field]>>

\* The items of field of documents i, i+1, ..., in that order, those of the
\* documents after the first tagged with their document's filename.
RECURSIVE Concatenated(_, _, _)
Concatenated(parsedResults, field, i) ==
    IF i > Len(parsedResults) THEN <<>>
    ELSE LET own == ItemsOf(parsedResults[i].data, field)
         IN  (IF i = 1 THEN own
              ELSE [n \in DOMAIN own |-> Tagged(own[n], parsedResults[i].filename)])
             \o Concatenated(parsedResults, field, i + 1)

\* C29: a list field that has items in some document is, in the consolidated
\* document, the list of all documents' items in document order (a value
\* that is no list counting as one item), the records of later documents
\* tagged with their source_file.
C29_ListsConcatenated ==
    (fn \in Merged /\ Len(parsed_results) >= 2) =>
        \A n \in DOMAIN array_fields :
            LET field    == array_fields[n]
                expected == Concatenated(parsed_results, field, 1)
            IN  expected /= <<>> =>
                    /\ field \in DOMAIN consolidated
                    /\ consolidated[field].type = "list"
                    /\ Len(consolidated[field].items) = Len(expected)
                    /\ consolidated[field].items = expected

====
